---- MODULE Spec2Model ----
(***************************************************************************)
(* Model of dictdatabase/io_unsafe.py: full and partial reads and writes   *)
(* of one JSON document, its plain/compressed representations and its      *)
(* index cache file.                                                       *)
(*                                                                         *)
(* Text is a sequence of one-character strings.  Offsets are 0-based, as   *)
(* in the source; Slice(data, s, e) is Python's data[s:e].                 *)
(***************************************************************************)
EXTENDS Integers, Sequences, FiniteSets, TLC

\***************************************************************************
\* Characters and text primitives
\***************************************************************************

QUOTE == "\""

BACKSLASH == "\\"

NEWLINE == "\n"

TAB == "\t"

SPACE == " "

Digits == <<"0", "1", "2", "3", "4", "5", "6", "7", "8", "9">>

IsDigit(c) == \E d \in 1..10 : Digits[d] = c

DigitVal(c) == (CHOOSE d \in 1..10 : Digits[d] = c) - 1

IsSpace(c) == c \in {SPACE, NEWLINE, TAB}

Min(a, b) == IF a < b THEN a ELSE b

Max(a, b) == IF a > b THEN a ELSE b

\* Python's data[s:e] for 0 <= s, 0 <= e (the end is clamped to len(data)).
Slice(data, s, e) == SubSeq(data, s + 1, Min(e, Len(data)))

\* Python's data[i] for an index inside the text.
At(data, i) == data[i + 1]

\* Python's n * s for a string s.
RECURSIVE Repeat(_, _)
Repeat(n, s) == IF n <= 0 THEN <<>> ELSE s \o Repeat(n - 1, s)

\* Python's str.replace("\n", "\n" + pad).
RECURSIVE ReplaceNewlines(_, _)
ReplaceNewlines(s, pad) ==
    IF s = <<>> THEN <<>>
    ELSE IF Head(s) = NEWLINE
         THEN <<NEWLINE>> \o pad \o ReplaceNewlines(Tail(s), pad)
         ELSE <<Head(s)>> \o ReplaceNewlines(Tail(s), pad)

\* hashlib.sha256(s.encode()).hexdigest(): a digest that distinguishes any
\* two texts (collisions of SHA-256 are out of the model's reach).
Sha256(s) == [sha256 |-> s]

\***************************************************************************
\* JSON values: [t |-> "num", n], [t |-> "str", s], [t |-> "obj", items]
\* where items is a sequence of <<key, value>> pairs in insertion order.
\***************************************************************************

Num(n) == [t |-> "num", n |-> n]

Str(s) == [t |-> "str", s |-> s]

Obj(items) == [t |-> "obj", items |-> items]

\* Order of the characters that occur in keys (Python compares code points).
KeyAlphabet == <<"a", "b", "x", "y">>

CharRank(c) == IF \E i \in 1..Len(KeyAlphabet) : KeyAlphabet[i] = c
               THEN CHOOSE i \in 1..Len(KeyAlphabet) : KeyAlphabet[i] = c
               ELSE 0

RECURSIVE KeyLess(_, _)
KeyLess(k1, k2) ==
    IF k1 = <<>> THEN k2 # <<>>
    ELSE IF k2 = <<>> THEN FALSE
    ELSE IF Head(k1) = Head(k2) THEN KeyLess(Tail(k1), Tail(k2))
    ELSE CharRank(Head(k1)) < CharRank(Head(k2))

\* sort_keys: the pairs ordered by key (stable insertion sort).
RECURSIVE InsertSorted(_, _)
InsertSorted(p, items) ==
    IF items = <<>> THEN <<p>>
    ELSE IF KeyLess(p[1], Head(items)[1]) THEN <<p>> \o items
    ELSE <<Head(items)>> \o InsertSorted(p, Tail(items))

RECURSIVE SortItems(_)
SortItems(items) ==
    IF items = <<>> THEN <<>>
    ELSE InsertSorted(Head(items), SortItems(Tail(items)))

RECURSIVE NatToText(_)
NatToText(n) == IF n < 10 THEN <<Digits[n + 1]>>
                ELSE NatToText(n \div 10) \o <<Digits[(n % 10) + 1]>>

RECURSIVE EscapeText(_)
EscapeText(s) ==
    IF s = <<>> THEN <<>>
    ELSE IF Head(s) \in {QUOTE, BACKSLASH}
         THEN <<BACKSLASH, Head(s)>> \o EscapeText(Tail(s))
         ELSE <<Head(s)>> \o EscapeText(Tail(s))

QuoteText(s) == <<QUOTE>> \o EscapeText(s) \o <<QUOTE>>

\***************************************************************************
\* Serializers.  A style is what the configuration selects:
\*   orjson, no indent : {"a":1,"b":2}
\*   orjson, indent    : OPT_INDENT_2, newline and two spaces per level
\*   json,   no indent : {"a": 1, "b": 2}
\*   json,   indent    : newline and config.indent per level
\***************************************************************************

DumpStyle(cfg) ==
    IF cfg.use_orjson
    THEN IF cfg.indent # <<>>
         THEN [nl |-> TRUE, unit |-> <<SPACE, SPACE>>, comma |-> <<",">>, colon |-> <<":", SPACE>>]
         ELSE [nl |-> FALSE, unit |-> <<>>, comma |-> <<",">>, colon |-> <<":">>]
    ELSE IF cfg.indent # <<>>
         THEN [nl |-> TRUE, unit |-> cfg.indent, comma |-> <<",">>, colon |-> <<":", SPACE>>]
         ELSE [nl |-> FALSE, unit |-> <<>>, comma |-> <<",", SPACE>>, colon |-> <<":", SPACE>>]

RECURSIVE SerValue(_, _, _, _)
RECURSIVE SerItems(_, _, _, _)
SerItems(items, st, sorted, depth) ==
    IF items = <<>> THEN <<>>
    ELSE LET brk == IF st.nl THEN <<NEWLINE>> \o Repeat(depth, st.unit) ELSE <<>>
             one == brk \o QuoteText(Head(items)[1]) \o st.colon
                        \o SerValue(Head(items)[2], st, sorted, depth)
         IN  IF Len(items) = 1 THEN one
             ELSE one \o st.comma \o SerItems(Tail(items), st, sorted, depth)

SerValue(v, st, sorted, depth) ==
    CASE v.t = "num" -> NatToText(v.n)
      [] v.t = "str" -> QuoteText(v.s)
      [] v.t = "obj" ->
            IF v.items = <<>> THEN <<"{", "}">>
            ELSE <<"{">>
                 \o SerItems(IF sorted THEN SortItems(v.items) ELSE v.items,
                             st, sorted, depth + 1)
                 \o (IF st.nl THEN <<NEWLINE>> \o Repeat(depth, st.unit) ELSE <<>>)
                 \o <<"}">>

\* orjson.dumps(v, option=...) / json.dumps(v, indent=..., sort_keys=...)
Dumps(v, cfg) == SerValue(v, DumpStyle(cfg), cfg.sort_keys, 0)

\***************************************************************************
\* Decoder (orjson.loads).  Positions are 1-based inside the decoder.
\* A result is [ok, v, next]; ok = FALSE is a JSONDecodeError.
\***************************************************************************

ParseFail == [ok |-> FALSE, v |-> Num(0), next |-> 0]

RECURSIVE SkipWs(_, _)
SkipWs(t, i) == IF i <= Len(t) /\ IsSpace(t[i]) THEN SkipWs(t, i + 1) ELSE i

RECURSIVE ParseDigits(_, _, _)
ParseDigits(t, i, acc) ==
    IF i <= Len(t) /\ IsDigit(t[i])
    THEN ParseDigits(t, i + 1, acc * 10 + DigitVal(t[i]))
    ELSE [ok |-> TRUE, v |-> Num(acc), next |-> i]

ParseNumber(t, i) ==
    IF t[i] = "0" /\ i + 1 <= Len(t) /\ IsDigit(t[i + 1]) THEN ParseFail
    ELSE ParseDigits(t, i, 0)

\* t[i] is the first character after the opening quote.
RECURSIVE ParseChars(_, _, _)
ParseChars(t, i, acc) ==
    IF i > Len(t) THEN ParseFail
    ELSE IF t[i] = QUOTE THEN [ok |-> TRUE, v |-> Str(acc), next |-> i + 1]
    ELSE IF t[i] = NEWLINE THEN ParseFail
    ELSE IF t[i] = BACKSLASH
         THEN IF i + 1 <= Len(t) /\ t[i + 1] \in {QUOTE, BACKSLASH}
              THEN ParseChars(t, i + 2, Append(acc, t[i + 1]))
              ELSE ParseFail
    ELSE ParseChars(t, i + 1, Append(acc, t[i]))

\* A dict keeps a key at the place of its first insertion, with its last value.
PutItem(items, k, v) ==
    IF \E j \in 1..Len(items) : items[j][1] = k
    THEN [j \in 1..Len(items) |-> IF items[j][1] = k THEN <<k, v>> ELSE items[j]]
    ELSE Append(items, <<k, v>>)

RECURSIVE ParseValue(_, _)
RECURSIVE ParseMembers(_, _, _)
\* t[i] is the first significant character of the next member.
ParseMembers(t, i, acc) ==
    IF i > Len(t) \/ t[i] # QUOTE THEN ParseFail
    ELSE LET k == ParseChars(t, i + 1, <<>>)
         IN  IF ~k.ok THEN ParseFail
             ELSE LET c == SkipWs(t, k.next)
                  IN  IF c > Len(t) \/ t[c] # ":" THEN ParseFail
                      ELSE LET val == ParseValue(t, SkipWs(t, c + 1))
                           IN  IF ~val.ok THEN ParseFail
                               ELSE LET e == SkipWs(t, val.next)
                                        items == PutItem(acc, k.v.s, val.v)
                                    IN  IF e > Len(t) THEN ParseFail
                                        ELSE IF t[e] = "}"
                                             THEN [ok |-> TRUE, v |-> Obj(items), next |-> e + 1]
                                        ELSE IF t[e] = ","
                                             THEN ParseMembers(t, SkipWs(t, e + 1), items)
                                        ELSE ParseFail

ParseValue(t, i) ==
    IF i > Len(t) THEN ParseFail
    ELSE IF IsDigit(t[i]) THEN ParseNumber(t, i)
    ELSE IF t[i] = QUOTE THEN ParseChars(t, i + 1, <<>>)
    ELSE IF t[i] = "{"
         THEN LET j == SkipWs(t, i + 1)
              IN  IF j <= Len(t) /\ t[j] = "}"
                  THEN [ok |-> TRUE, v |-> Obj(<<>>), next |-> j + 1]
                  ELSE ParseMembers(t, j, <<>>)
    ELSE ParseFail

\* orjson.loads(text): one value, surrounded by optional whitespace.
Loads(text) ==
    LET r == ParseValue(text, SkipWs(text, 1))
    IN  IF r.ok /\ SkipWs(text, r.next) = Len(text) + 1
        THEN [ok |-> TRUE, v |-> r.v]
        ELSE [ok |-> FALSE, v |-> Num(0)]

\***************************************************************************
\* Boundary scanner (dictdatabase.utils)
\***************************************************************************

\* State of the quote/escape tracking after reading character c.
ScanStep(in_str, esc, c) ==
    IF in_str
    THEN IF esc THEN [in_str |-> TRUE, esc |-> FALSE]
         ELSE IF c = BACKSLASH THEN [in_str |-> TRUE, esc |-> TRUE]
         ELSE IF c = QUOTE THEN [in_str |-> FALSE, esc |-> FALSE]
         ELSE [in_str |-> TRUE, esc |-> FALSE]
    ELSE [in_str |-> (c = QUOTE), esc |-> FALSE]

\* i is a 1-based position; the result is a 0-based offset, or -1.
RECURSIVE FindKeyFrom(_, _, _, _, _)
FindKeyFrom(data, json_key, i, in_str, esc) ==
    IF i > Len(data) THEN -1
    ELSE IF ~in_str /\ SubSeq(data, i, Min(i + Len(json_key) - 1, Len(data))) = json_key
         THEN i - 1
         ELSE LET st == ScanStep(in_str, esc, data[i])
              IN  FindKeyFrom(data, json_key, i + 1, st.in_str, st.esc)

\* utils.find_outermost_json_key_index: the first occurrence of the token
\* "<key>": that does not lie inside a string literal; -1 when there is none.
find_outermost_json_key_index(data, json_key) ==
    FindKeyFrom(data, json_key, 1, FALSE, FALSE)

\* The next significant character at or after 1-based position i is a
\* delimiter, or the text ends there.
AtDelimiter(data, i) ==
    LET j == SkipWs(data, i)
    IN  j > Len(data) \/ data[j] \in {",", "}", "]"}

\* i is the 0-based offset of the next character to read.
RECURSIVE SeekFrom(_, _, _, _, _)
SeekFrom(data, i, depth, in_str, esc) ==
    IF i >= Len(data) THEN Len(data)
    ELSE LET c  == At(data, i)
             st == ScanStep(in_str, esc, c)
             d  == IF in_str \/ st.in_str THEN depth
                   ELSE IF c \in {"{", "["} THEN depth + 1
                   ELSE IF c \in {"}", "]"} THEN depth - 1
                   ELSE depth
         IN  IF ~st.in_str /\ d = 0 /\ AtDelimiter(data, i + 2)
             THEN i + 1
             ELSE SeekFrom(data, i + 1, d, st.in_str, st.esc)

\* utils.seek_index_through_value: the offset just after the value that
\* starts at offset index.
seek_index_through_value(data, index) == SeekFrom(data, index, 0, FALSE, FALSE)

\* 0-based offset of the first character of the line that holds offset i.
RECURSIVE LineStart(_, _)
LineStart(data, i) ==
    IF i = 0 \/ At(data, i - 1) = NEWLINE THEN i ELSE LineStart(data, i - 1)

\* Number of spaces and tabs from offset i on, up to offset stop.
RECURSIVE LeadingBlanks(_, _, _)
LeadingBlanks(data, i, stop) ==
    IF i < stop /\ At(data, i) \in {SPACE, TAB}
    THEN 1 + LeadingBlanks(data, i + 1, stop)
    ELSE 0

\* utils.detect_indentation_in_json_string: the leading whitespace of the
\* line of the key, as (number of whitespace characters, the character).
detect_indentation_in_json_string(data, index) ==
    LET ls == LineStart(data, index)
        n  == LeadingBlanks(data, ls, index)
    IN  IF n = 0 THEN [indent_level |-> 0, indent_with |-> <<>>]
        ELSE [indent_level |-> n, indent_with |-> <<At(data, ls)>>]

\***************************************************************************
\* Document representation layer
\***************************************************************************

\* zlib.compress / zlib.decompress: a lossless codec, modelled by run-length
\* coding (a sequence of <<character, run length>> pairs).
RECURSIVE CompressFrom(_, _, _)
CompressFrom(text, i, acc) ==
    IF i > Len(text) THEN acc
    ELSE IF acc # <<>> /\ acc[Len(acc)][1] = text[i]
         THEN CompressFrom(text, i + 1,
                           [acc EXCEPT ![Len(acc)] = <<text[i], acc[Len(acc)][2] + 1>>])
         ELSE CompressFrom(text, i + 1, Append(acc, <<text[i], 1>>))

Compress(text) == CompressFrom(text, 1, <<>>)

\* zlib.decompress that gives one character for each run, whatever its length.
RECURSIVE DecompressRunsOnce(_)
DecompressRunsOnce(bytes) ==
    IF bytes = <<>> THEN <<>>
    ELSE <<Head(bytes)[1]>> \o DecompressRunsOnce(Tail(bytes))

RECURSIVE Decompress(_)
Decompress(bytes) ==
    IF bytes = <<>> THEN <<>>
    ELSE Repeat(Head(bytes)[2], <<Head(bytes)[1]>>) \o Decompress(Tail(bytes))

NoFile == [exists |-> FALSE, data |-> <<>>]

File(data) == [exists |-> TRUE, data |-> data]

VARIABLES
    json_file,    \* the plain file <db_name>.json
    ddb_file,     \* the compressed file <db_name>.ddb
    index_file,   \* the index cache file .ddb/<db_name>.index
    index_dir,    \* the directory .ddb exists
    config,       \* use_compression, use_orjson, indent, sort_keys
    pf,           \* the PartialFileHandle the caller holds, if any
    last,         \* the last call and its outcome
    calls         \* number of steps taken so far

vars == <<json_file, ddb_file, index_file, index_dir, config, pf, last, calls>>

\* utils.db_paths: which representations exist.
db_paths(json, ddb) == [json_exists |-> json.exists, ddb_exists |-> ddb.exists]

\* read_file without the check for two representations: the plain file wins.
read_file_lenient(json, ddb) ==
    IF json.exists THEN [outcome |-> "ok", data |-> json.data]
    ELSE IF ddb.exists THEN [outcome |-> "ok", data |-> Decompress(ddb.data)]
    ELSE [outcome |-> "FileNotFoundError", data |-> <<>>]

\* read_file: the document text, or the error raised.
read_file(json, ddb) ==
    LET p == db_paths(json, ddb)
    IN  IF p.json_exists /\ p.ddb_exists
        THEN [outcome |-> "FileExistsError", data |-> <<>>]
        ELSE IF ~p.json_exists /\ ~p.ddb_exists
        THEN [outcome |-> "FileNotFoundError", data |-> <<>>]
        ELSE IF p.json_exists
        THEN [outcome |-> "ok", data |-> json.data]
        ELSE [outcome |-> "ok", data |-> Decompress(ddb.data)]

\* read: the decoded document, or the error raised.
read(json, ddb) ==
    LET f == read_file(json, ddb)
    IN  IF f.outcome # "ok" THEN [outcome |-> f.outcome, value |-> Num(0)]
        ELSE LET d == Loads(f.data)
             IN  IF d.ok THEN [outcome |-> "ok", value |-> d.v]
                 ELSE [outcome |-> "JSONDecodeError", value |-> Num(0)]

\* write_dump that leaves the other representation in place.
write_dump_keep(json, ddb, cfg, dump) ==
    IF cfg.use_compression
    THEN [json |-> json, ddb |-> File(Compress(dump))]
    ELSE [json |-> File(dump), ddb |-> ddb]

\* write_dump: the two files after the dump was written.
write_dump(json, ddb, cfg, dump) ==
    LET p == db_paths(json, ddb)
    IN  IF cfg.use_compression
        THEN [json |-> IF p.json_exists THEN NoFile ELSE json,
              ddb  |-> File(Compress(dump))]
        ELSE [json |-> File(dump),
              ddb  |-> IF p.ddb_exists THEN NoFile ELSE ddb]

\***************************************************************************
\* Index cache
\***************************************************************************

NoIndex == [exists |-> FALSE, map |-> <<>>]

\* read_index_file: the mapping of the file, {} when there is no file.
read_index_file(idx) == IF idx.exists THEN idx.map ELSE <<>>

IndexEntry(start_index, end_index, indent_level, indent_with, value_hash) ==
    [start |-> start_index, end |-> end_index, indent_level |-> indent_level,
     indent_with |-> indent_with, value_hash |-> value_hash]

\* index_data[key] = [...] of write_index_file.
SetEntry(index_data, key, entry) ==
    [k \in (DOMAIN index_data) \cup {key} |-> IF k = key THEN entry ELSE index_data[k]]

\* write_index_file: the mapping with the entry of key set, which is also
\* the new content of the index file.
write_index_file(index_data, key, start_index, end_index, indent_level, indent_with, value_hash) ==
    SetEntry(index_data, key,
             IndexEntry(start_index, end_index, indent_level, indent_with, value_hash))

\***************************************************************************
\* Partial read
\***************************************************************************

JsonKey(key) == <<QUOTE>> \o key \o <<QUOTE, ":">>

ReadError(outcome, branch, index_data, wrote) ==
    [outcome |-> outcome, branch |-> branch, value |-> Num(0),
     start |-> 0, end |-> 0, indent_level |-> 0, indent_with |-> <<>>,
     prefix |-> <<>>, suffix |-> <<>>, index_data |-> index_data, wrote |-> wrote]

\* A decoded span whose handle takes its suffix one character late.
ReadSpanLateSuffix(data, branch, start, end, indent_level, indent_with, index_data, wrote) ==
    LET partial_value == Loads(Slice(data, start, end))
    IN  IF ~partial_value.ok THEN ReadError("JSONDecodeError", branch, index_data, wrote)
        ELSE [outcome |-> "ok", branch |-> branch, value |-> partial_value.v,
              start |-> start, end |-> end,
              indent_level |-> indent_level, indent_with |-> indent_with,
              prefix |-> Slice(data, 0, start),
              suffix |-> Slice(data, end + 1, Len(data)),
              index_data |-> index_data, wrote |-> wrote]

\* The decoded span [start, end) of data, as a value and as the parts of a
\* handle; a JSONDecodeError when the span does not decode.
ReadSpan(data, branch, start, end, indent_level, indent_with, index_data, wrote) ==
    LET partial_value == Loads(Slice(data, start, end))
    IN  IF ~partial_value.ok THEN ReadError("JSONDecodeError", branch, index_data, wrote)
        ELSE [outcome |-> "ok", branch |-> branch, value |-> partial_value.v,
              start |-> start, end |-> end,
              indent_level |-> indent_level, indent_with |-> indent_with,
              prefix |-> Slice(data, 0, start),
              suffix |-> Slice(data, end, Len(data)),
              index_data |-> index_data, wrote |-> wrote]

\* A cache lookup that trusts the stored offsets without comparing hashes.
IndexHitTrusting(data, index_data, key) == key \in DOMAIN index_data

\* The index entry of key exists and its hash is the hash of the text at its
\* offsets.
IndexHit(data, index_data, key) ==
    /\ key \in DOMAIN index_data
    /\ index_data[key].value_hash
          = Sha256(Slice(data, index_data[key].start, index_data[key].end))

\* A full scan that stores the offset just after the colon as the start of
\* the value, not skipping the optional space.
FullScanKeyEnd(data, index_data, key) ==
    LET json_key == JsonKey(key)
        json_key_start_index == find_outermost_json_key_index(data, json_key)
        json_key_end_index == json_key_start_index + Len(json_key)
    IN  IF json_key_start_index = -1 THEN ReadError("KeyError", "scan", index_data, FALSE)
        ELSE IF json_key_end_index >= Len(data)
        THEN ReadError("IndexError", "scan", index_data, FALSE)
        ELSE LET space_after_semicolon == IF At(data, json_key_end_index) = SPACE THEN 1 ELSE 0
                 value_start_index == json_key_end_index + space_after_semicolon
                 value_end_index == seek_index_through_value(data, value_start_index)
                 ind == detect_indentation_in_json_string(data, json_key_start_index)
                 partial_str == Slice(data, value_start_index, value_end_index)
                 new_index == write_index_file(index_data, key, json_key_end_index,
                                  value_end_index, ind.indent_level, ind.indent_with,
                                  Sha256(partial_str))
             IN  ReadSpan(data, "scan", value_start_index, value_end_index,
                          ind.indent_level, ind.indent_with, new_index, TRUE)

\* The search of the key in the entire file.
FullScan(data, index_data, key) ==
    LET json_key == JsonKey(key)
        json_key_start_index == find_outermost_json_key_index(data, json_key)
        json_key_end_index == json_key_start_index + Len(json_key)
    IN  IF json_key_start_index = -1 THEN ReadError("KeyError", "scan", index_data, FALSE)
        ELSE IF json_key_end_index >= Len(data)
        THEN ReadError("IndexError", "scan", index_data, FALSE)
        ELSE LET space_after_semicolon == IF At(data, json_key_end_index) = SPACE THEN 1 ELSE 0
                 value_start_index == json_key_end_index + space_after_semicolon
                 value_end_index == seek_index_through_value(data, value_start_index)
                 ind == detect_indentation_in_json_string(data, json_key_start_index)
                 partial_str == Slice(data, value_start_index, value_end_index)
                 new_index == write_index_file(index_data, key, value_start_index,
                                  value_end_index, ind.indent_level, ind.indent_with,
                                  Sha256(partial_str))
             IN  ReadSpan(data, "scan", value_start_index, value_end_index,
                          ind.indent_level, ind.indent_with, new_index, TRUE)

\* partial_read on the document text data and the loaded index mapping.
partial_read(data, index_data, key) ==
    IF IndexHit(data, index_data, key)
    THEN ReadSpan(data, "hit", index_data[key].start, index_data[key].end,
                  index_data[key].indent_level, index_data[key].indent_with,
                  index_data, FALSE)
    ELSE FullScan(data, index_data, key)

\***************************************************************************
\* Partial write
\***************************************************************************

NoHandle ==
    [held |-> FALSE, prefix |-> <<>>, key |-> <<>>, value |-> Num(0), suffix |-> <<>>,
     indent_level |-> 0, indent_with |-> <<>>, index_data |-> <<>>, read_data |-> <<>>]

\* The serialized value as the serializer gives it, not re-indented.
PartialDumpNoIndent(h, value, cfg) == Dumps(value, cfg)

\* The serialized value, re-indented to the level of the handle.
PartialDump(h, value, cfg) ==
    LET partial_dump == Dumps(value, cfg)
    IN  IF h.indent_level > 0 /\ h.indent_with # <<>>
        THEN ReplaceNewlines(partial_dump, Repeat(h.indent_level, h.indent_with))
        ELSE partial_dump

\* An index entry whose end offset is the length of the dump alone.
PartialIndexDumpLength(h, partial_dump) ==
    write_index_file(h.index_data, h.key, Len(h.prefix), Len(partial_dump),
                     h.indent_level, h.indent_with, Sha256(partial_dump))

\* The index mapping partial_write stores for the handle.
PartialIndex(h, partial_dump) ==
    write_index_file(h.index_data, h.key, Len(h.prefix),
                     Len(h.prefix) + Len(partial_dump),
                     h.indent_level, h.indent_with, Sha256(partial_dump))

\* A composed document that loses the text after the value.
PartialDocumentNoSuffix(h, partial_dump) == h.prefix \o partial_dump

\* A composed document that takes the text around the value from the
\* document as it is on disk at the time of the write.
PartialDocumentCurrent(h, partial_dump) ==
    LET f == read_file(json_file, ddb_file)
    IN  IF f.outcome # "ok" THEN h.prefix \o partial_dump \o h.suffix
        ELSE Slice(f.data, 0, Len(h.prefix)) \o partial_dump
               \o Slice(f.data, Len(f.data) - Len(h.suffix), Len(f.data))

\* The document partial_write composes.
PartialDocument(h, partial_dump) == h.prefix \o partial_dump \o h.suffix

\***************************************************************************
\* Inputs
\***************************************************************************

KeyA == <<"a">>

KeyB == <<"b">>

KeyX == <<"x">>

\* The keys the caller reads and writes.
Keys == {KeyA, KeyB}

\* The values the caller writes.
Values == {Num(1), Num(12), Obj(<< <<KeyX, Num(1)>> >>)}

\* The documents the caller writes in full.
Docs ==
    {Obj(<< <<KeyB, Num(1)>> >>),
     Obj(<< <<KeyA, Num(1)>> >>),
     Obj(<< <<KeyA, Num(12)>> >>),
     Obj(<< <<KeyB, Num(1)>>, <<KeyA, Obj(<< <<KeyX, Num(1)>> >>)>> >>)}

\* A dump handed to write_dump as text: the value of "b" is a string that
\* contains the token "a": .
RawDumps ==
    {<<"{", QUOTE, "b", QUOTE, ":", QUOTE, BACKSLASH, QUOTE, "a", BACKSLASH, QUOTE, ":",
       QUOTE, ",", QUOTE, "a", QUOTE, ":", "1", "}">>}

\* The texts another process puts in place of a representation.
ExternalTexts == {<<"{", QUOTE, "a", QUOTE, ":", "1", "2", "}">>}

\* The configurations the process runs with: the fast serializer without and
\* with indentation, and the standard serializer without indentation and
\* without key sorting.
Configs ==
    {[use_compression |-> FALSE, use_orjson |-> TRUE, indent |-> <<>>, sort_keys |-> TRUE],
     [use_compression |-> TRUE, use_orjson |-> TRUE, indent |-> <<TAB>>, sort_keys |-> TRUE],
     [use_compression |-> FALSE, use_orjson |-> FALSE, indent |-> <<>>, sort_keys |-> FALSE]}

\* Longest run of calls and outside events the model follows.
MaxCalls == 5

\***************************************************************************
\* State machine
\***************************************************************************

\* Which representations exist.
OnDisk(json, ddb) ==
    IF json.exists /\ ddb.exists THEN "both"
    ELSE IF json.exists THEN "plain"
    ELSE IF ddb.exists THEN "compressed"
    ELSE "neither"

\* The record of a call: what was called and what it gave, and what held
\* just before it (after: the call it directly follows, when that call was for
\* the same key; had: what the index cache held for the key, and for a
\* partial write whether the document is no longer the one read; prior: the
\* representations on disk; before: for a partial write, the document text
\* its handle was read from; dump: for a write, the text handed to
\* write_dump).
Call(op, key, as_handle, outcome, branch, value, wrote, after, had) ==
    [op |-> op, key |-> key, as_handle |-> as_handle, outcome |-> outcome,
     branch |-> branch, value |-> value, wrote |-> wrote, after |-> after,
     had |-> had, prior |-> OnDisk(json_file, ddb_file), before |-> <<>>,
     dump |-> <<>>]

\* The record of a write of the text dump. A write that follows a successful
\* partial_read and a change of the configuration, and that puts the text
\* already on disk in place again, keeps the key and the value of that read.
WriteCall(op, dump) ==
    LET f == read_file(json_file, ddb_file)
        same == /\ last.op = "config" /\ last.after = "read"
                /\ f.outcome = "ok" /\ f.data = dump
    IN  [Call(op, IF same THEN last.key ELSE <<>>, FALSE, "ok", "none",
              IF same THEN last.value ELSE Num(0), FALSE,
              IF same THEN "same" ELSE "other", "none")
         EXCEPT !.dump = dump]

\* What the index cache file holds for the key, against the text data.
CacheState(data, key) ==
    LET m == read_index_file(index_file)
    IN  IF key \notin DOMAIN m THEN "none"
        ELSE IF m[key].value_hash = Sha256(Slice(data, m[key].start, m[key].end))
        THEN "match"
        ELSE "stale"

Init ==
    /\ json_file = NoFile
    /\ ddb_file = NoFile
    /\ index_file = NoIndex
    /\ index_dir = FALSE
    /\ config \in Configs
    /\ pf = NoHandle
    /\ last = [op |-> "init", key |-> <<>>, as_handle |-> FALSE, outcome |-> "ok",
               branch |-> "none", value |-> Num(0), wrote |-> FALSE, after |-> "other",
               had |-> "none", prior |-> "neither", before |-> <<>>,
               dump |-> <<>>]
    /\ calls = 0

\* One more step is taken.
Step == calls < MaxCalls /\ calls' = calls + 1

\* The configuration is changed.
SetConfig(c) ==
  /\ Step
  /\
    /\ c # config
    /\ config' = c
    /\ last' = IF last.op = "partial_read" /\ last.outcome = "ok"
               THEN Call("config", last.key, FALSE, "ok", "none", last.value, FALSE,
                         "read", "none")
               ELSE Call("config", <<>>, FALSE, "ok", "none", Num(0), FALSE,
                         "other", "none")
    /\ UNCHANGED <<json_file, ddb_file, index_file, index_dir, pf>>

\* write_dump(db_name, dump) as an action.
WriteDump(dump) ==
  /\ Step
  /\
    LET w == write_dump(json_file, ddb_file, config, dump)
    IN  /\ json_file' = w.json
        /\ ddb_file' = w.ddb
        /\ last' = WriteCall("write_dump", dump)
        /\ UNCHANGED <<index_file, index_dir, config, pf>>

\* write(db_name, db)
Write(db) ==
  /\ Step
  /\
    LET w == write_dump(json_file, ddb_file, config, Dumps(db, config))
    IN  /\ json_file' = w.json
        /\ ddb_file' = w.ddb
        /\ last' = WriteCall("write", Dumps(db, config))
        /\ UNCHANGED <<index_file, index_dir, config, pf>>

\* read(db_name)
Read ==
  /\ Step
  /\
    LET r == read(json_file, ddb_file)
    IN  /\ last' = Call("read", <<>>, FALSE, r.outcome, "none", r.value, FALSE, "other", "none")
        /\ UNCHANGED <<json_file, ddb_file, index_file, index_dir, config, pf>>

\* partial_read(db_name, key, as_handle)
PartialRead(key, as_handle) ==
  /\ Step
  /\
    LET f   == read_file(json_file, ddb_file)
        after == IF /\ last.op \in {"partial_read", "partial_write", "crash"}
                       /\ last.key = key /\ last.outcome = "ok"
                    THEN last.op
                    ELSE IF /\ last.op \in {"write", "write_dump"}
                            /\ last.after = "same" /\ last.key = key
                            /\ last.prior # OnDisk(json_file, ddb_file)
                    THEN "rewrite"
                    ELSE "other"
    IN  IF f.outcome # "ok"
        THEN /\ last' = Call("partial_read", key, as_handle, f.outcome, "none",
                             Num(0), FALSE, after, "none")
             /\ UNCHANGED <<json_file, ddb_file, index_file, index_dir, config, pf>>
        ELSE LET r == partial_read(f.data, read_index_file(index_file), key)
             IN  /\ index_dir' = TRUE
                 /\ index_file' = IF r.wrote
                                  THEN [exists |-> TRUE, map |-> r.index_data]
                                  ELSE index_file
                 /\ pf' = IF as_handle /\ r.outcome = "ok"
                          THEN [held |-> TRUE, prefix |-> r.prefix, key |-> key,
                                value |-> r.value, suffix |-> r.suffix,
                                indent_level |-> r.indent_level,
                                indent_with |-> r.indent_with,
                                index_data |-> r.index_data, read_data |-> f.data]
                          ELSE pf
                 /\ last' = Call("partial_read", key, as_handle, r.outcome, r.branch,
                                 r.value, r.wrote, after, CacheState(f.data, key))
                 /\ UNCHANGED <<json_file, ddb_file, config>>

\* partial_write(pf) after the caller set the value of the handle to value.
\* The caller uses a handle for one write.
PartialWrite(value) ==
  /\ Step
  /\
    LET partial_dump == PartialDump(pf, value, config)
        new_index == PartialIndex(pf, partial_dump)
        dump == PartialDocument(pf, partial_dump)
        w == write_dump(json_file, ddb_file, config, dump)
        after == IF last.op = "partial_read" /\ last.as_handle /\ last.outcome = "ok"
                 THEN "handle" ELSE "other"
    IN  /\ pf.held
        /\ index_file' = [exists |-> TRUE, map |-> new_index]
        /\ json_file' = w.json
        /\ ddb_file' = w.ddb
        /\ pf' = NoHandle
        /\ last' = [Call("partial_write", pf.key, FALSE, "ok", "none", value, TRUE,
                         after,
                         IF read_file(json_file, ddb_file)
                              = [outcome |-> "ok", data |-> pf.read_data]
                         THEN "none" ELSE "changed")
                    EXCEPT !.before = pf.read_data, !.dump = dump]
        /\ UNCHANGED <<index_dir, config>>

\* partial_write(pf) interrupted after write_index_file and before write_dump.
PartialWriteCrash(value) ==
  /\ Step
  /\
    LET partial_dump == PartialDump(pf, value, config)
        new_index == PartialIndex(pf, partial_dump)
    IN  /\ pf.held
        /\ index_file' = [exists |-> TRUE, map |-> new_index]
        /\ pf' = NoHandle
        /\ last' = Call("crash", pf.key, FALSE, "ok", "none", value, TRUE,
                        IF last.op = "partial_read" /\ last.as_handle /\ last.outcome = "ok"
                        THEN "handle" ELSE "other",
                        "none")
        /\ UNCHANGED <<json_file, ddb_file, index_dir, config>>

\* Another process puts a text in place as the plain or the compressed file,
\* without regard to the other representation or the index cache.
ExternalPut(compressed, text) ==
  /\ Step
  /\
    /\ IF compressed
       THEN ddb_file' = File(Compress(text)) /\ UNCHANGED json_file
       ELSE json_file' = File(text) /\ UNCHANGED ddb_file
    /\ last' = Call("external", <<>>, FALSE, "ok", "none", Num(0), FALSE, "other", "none")
    /\ UNCHANGED <<index_file, index_dir, config, pf>>

\* Another process deletes the document, whatever its representations.
ExternalDelete ==
  /\ Step
  /\ json_file.exists \/ ddb_file.exists
  /\ json_file' = NoFile
  /\ ddb_file' = NoFile
  /\ last' = Call("external", <<>>, FALSE, "ok", "none", Num(0), FALSE, "other", "none")
  /\ UNCHANGED <<index_file, index_dir, config, pf>>

Next ==
    \/ \E c \in Configs : SetConfig(c)
    \/ \E dump \in RawDumps : WriteDump(dump)
    \/ \E db \in Docs : Write(db)
    \/ Read
    \/ \E key \in Keys, as_handle \in BOOLEAN : PartialRead(key, as_handle)
    \/ \E value \in Values : PartialWrite(value)
    \/ \E value \in Values : PartialWriteCrash(value)
    \/ \E compressed \in BOOLEAN, text \in ExternalTexts : ExternalPut(compressed, text)
    \/ ExternalDelete

Spec == Init /\ [][Next]_vars

\* The calls of the module alone: no other process, no interruption.
NextAPI ==
    \/ \E c \in Configs : SetConfig(c)
    \/ \E dump \in RawDumps : WriteDump(dump)
    \/ \E db \in Docs : Write(db)
    \/ Read
    \/ \E key \in Keys, as_handle \in BOOLEAN : PartialRead(key, as_handle)
    \/ \E value \in Values : PartialWrite(value)

SpecAPI == Init /\ [][NextAPI]_vars

\***************************************************************************
\* Observations used by the properties
\***************************************************************************

\* The document text on disk, and the document a full read decodes.
DocText == read_file(json_file, ddb_file)

FullDoc == read(json_file, ddb_file)

\* Dict equality does not depend on the order of the keys.
RECURSIVE Canon(_)
Canon(v) ==
    IF v.t # "obj" THEN v
    ELSE Obj(SortItems([i \in 1..Len(v.items) |->
                          <<v.items[i][1], Canon(v.items[i][2])>>]))

HasKey(v, k) == v.t = "obj" /\ \E i \in 1..Len(v.items) : v.items[i][1] = k

ValueOf(v, k) == v.items[CHOOSE i \in 1..Len(v.items) : v.items[i][1] = k][2]

\* v with the value of the key k replaced by w.
Replaced(v, k, w) ==
    Obj([i \in 1..Len(v.items) |->
            IF v.items[i][1] = k THEN <<k, w>> ELSE v.items[i]])

\* No key token occurs twice in the text (outside string literals).
KeysUnique(data) ==
    \A k \in {KeyA, KeyB, KeyX} :
        LET first == find_outermost_json_key_index(data, JsonKey(k))
        IN  first # -1 =>
               FindKeyFrom(data, JsonKey(k), first + Len(JsonKey(k)) + 1, FALSE, FALSE) = -1

\* The document decodes, its keys are unique and k is one of its keys.
Holds(k) ==
    /\ FullDoc.outcome = "ok"
    /\ KeysUnique(DocText.data)
    /\ HasKey(FullDoc.value, k)

\***************************************************************************
\* Properties
\***************************************************************************

\* The document text the written handle was read from.
BeforeDoc == Loads(last.before)

\* It decodes, its keys are unique and the key of the handle is one of them.
BeforeHolds ==
    /\ BeforeDoc.ok
    /\ KeysUnique(last.before)
    /\ HasKey(BeforeDoc.v, last.key)

\* C1 (round trip): when a handle for a key K of a document with unique keys
\* was just taken with partial_read(db, K, as_handle=True) and partial_write
\* writes it with the value V, the full read gives the previous document with
\* the value of K replaced by V and every other key unchanged.
RoundTrip ==
    (last.op = "partial_write" /\ last.after = "handle" /\ BeforeHolds)
    => ( /\ FullDoc.outcome = "ok"
         /\ Canon(FullDoc.value) = Canon(Replaced(BeforeDoc.v, last.key, last.value)) )

\* C2 (read correctness): a partial_read of a key K of the current document
\* (unique keys) returns the value the full read gives for K, whatever the
\* index cache holds.
ReadCorrect ==
    (last.op = "partial_read" /\ Holds(last.key))
    => ( /\ last.outcome = "ok"
         /\ Canon(last.value) = Canon(ValueOf(FullDoc.value, last.key)) )

\* The text ends with the token of the key, with or without a space.
EndsWithKey(text, key) ==
    LET n == Len(text)
        t == JsonKey(key)
    IN  \/ n >= Len(t) /\ SubSeq(text, n - Len(t) + 1, n) = t
        \/ n > Len(t) /\ text[n] = SPACE /\ SubSeq(text, n - Len(t), n - 1) = t

\* In the text data, [start, end) is the span of the value of the key, and
\* value is what it decodes to.
IsValueSpan(data, key, start, end, value) ==
    /\ start <= end /\ end <= Len(data)
    /\ EndsWithKey(Slice(data, 0, start), key)
    /\ AtDelimiter(data, end + 1)
    /\ Loads(Slice(data, start, end)).ok
    /\ Canon(Loads(Slice(data, start, end)).v) = Canon(value)

\* C3 (staleness detection): when the text at the offsets of the index entry
\* of K no longer has the stored hash and K is a key of the document, the
\* partial_read of K takes the full scan, returns the current value of K
\* without an error, and rewrites the entry with the span and hash it found.
StaleDetected ==
    (last.op = "partial_read" /\ last.had = "stale" /\ Holds(last.key))
    => ( /\ last.outcome = "ok"
         /\ last.branch = "scan"
         /\ last.wrote
         /\ Canon(last.value) = Canon(ValueOf(FullDoc.value, last.key))
         /\ index_file.exists
         /\ last.key \in DOMAIN index_file.map
         /\ LET e == index_file.map[last.key]
            IN  /\ IsValueSpan(DocText.data, last.key, e.start, e.end, last.value)
                /\ e.value_hash = Sha256(Slice(DocText.data, e.start, e.end)) )

StaleDetectedWitness ==
    /\ last.op = "partial_read" /\ last.had = "stale" /\ Holds(last.key)
    /\ last.branch = "scan" /\ last.outcome = "ok"

\* C4 (cache soundness): the partial_read(db, K, as_handle=False) that
\* directly follows the partial_write of a handle for K with the value V
\* returns V on the cache-hit branch and does not write the index file.
CacheSound ==
    [][ ( /\ last.op = "partial_write"
          /\ last'.op = "partial_read" /\ last'.key = last.key /\ ~last'.as_handle )
        => ( /\ last'.outcome = "ok"
             /\ last'.branch = "hit"
             /\ Canon(last'.value) = Canon(last.value)
             /\ ~last'.wrote
             /\ index_file' = index_file ) ]_vars

CacheSoundWitness ==
    /\ last.op = "partial_read" /\ last.after = "partial_write" /\ ~last.as_handle
    /\ last.branch = "hit" /\ last.value.t = "obj"

\* Some key of the value, at any depth, is k.
RECURSIVE KeyOccurs(_, _)
KeyOccurs(v, k) ==
    /\ v.t = "obj"
    /\ \E i \in 1..Len(v.items) : v.items[i][1] = k \/ KeyOccurs(v.items[i][2], k)

\* C5 (missing key): a partial_read of a key that does not occur in the
\* current document fails with KeyError and does not write the index file.
MissingKey ==
    (last.op = "partial_read" /\ FullDoc.outcome = "ok" /\ ~KeyOccurs(FullDoc.value, last.key))
    => (last.outcome = "KeyError" /\ ~last.wrote)

\* C6 (mutual exclusivity): after a write_dump, a write or a partial_write,
\* exactly one of the two files exists, the one the compression setting
\* selects.
ExactlyOneFile ==
    (last.op \in {"write_dump", "write", "partial_write"})
    => ( /\ json_file.exists # ddb_file.exists
         /\ ddb_file.exists = config.use_compression )

ExactlyOneFileWitness ==
    /\ last.op = "write_dump" /\ last.prior = "both"
    /\ ddb_file.exists /\ ~json_file.exists

\* C7 (frame of a partial write): the document partial_write leaves on disk
\* is the prefix of the handle, the serialized value and the suffix of the
\* handle, and the prefix and the suffix are the text before and after the
\* span in the document the handle was read from.
PartialFrame ==
    [][ (last'.op = "partial_write")
        => ( /\ DocText'.outcome = "ok"
             /\ DocText'.data = pf.prefix \o PartialDump(pf, last'.value, config) \o pf.suffix
             /\ pf.prefix = Slice(pf.read_data, 0, Len(pf.prefix))
             /\ pf.suffix = Slice(pf.read_data, Len(pf.read_data) - Len(pf.suffix),
                                  Len(pf.read_data)) ) ]_vars

PartialFrameWitness ==
    /\ last.op = "partial_write" /\ last.value.t = "obj"
    /\ ddb_file.exists /\ last.before # <<>>
    /\ DocText.data # last.before

\* C8 (crash tolerance): after a partial_write that stored the index entry
\* and was interrupted before it wrote the document, the next partial_read of
\* that key returns the value the document holds for it, and a handle it
\* returns splits the document around the span of that value.
CrashTolerant ==
    (last.op = "partial_read" /\ last.after = "crash" /\ Holds(last.key))
    => ( /\ last.outcome = "ok"
         /\ Canon(last.value) = Canon(ValueOf(FullDoc.value, last.key))
         /\ last.as_handle =>
               /\ pf.prefix \o Slice(DocText.data, Len(pf.prefix),
                                     Len(DocText.data) - Len(pf.suffix))
                            \o pf.suffix = DocText.data
               /\ IsValueSpan(DocText.data, last.key, Len(pf.prefix),
                              Len(DocText.data) - Len(pf.suffix), last.value) )

\* C9 (idempotent read): a partial_read of K that directly follows a
\* partial_read of K that returned a value returns the same value on the
\* cache-hit branch, writes no file and leaves the index entries as they are.
IdempotentRead ==
    [][ ( /\ last.op = "partial_read" /\ last.outcome = "ok"
          /\ last'.op = "partial_read" /\ last'.key = last.key )
        => ( /\ last'.outcome = "ok"
             /\ last'.value = last.value
             /\ last'.branch = "hit"
             /\ ~last'.wrote
             /\ index_file' = index_file ) ]_vars

IdempotentReadWitness ==
    /\ last.op = "partial_read" /\ last.after = "partial_read"
    /\ last.branch = "hit" /\ last.outcome = "ok"
    /\ index_file.exists /\ last.key \in DOMAIN index_file.map

\* C10 (storage errors): read_file fails with FileExistsError when both files
\* exist and with FileNotFoundError when neither exists; the call changes no
\* file, and partial_read fails before it touches the index cache.
StorageErrors ==
    [][ (last'.op \in {"read", "partial_read"})
        => ( /\ OnDisk(json_file, ddb_file) = "both" => last'.outcome = "FileExistsError"
             /\ OnDisk(json_file, ddb_file) = "neither" => last'.outcome = "FileNotFoundError"
             /\ OnDisk(json_file, ddb_file) \in {"both", "neither"}
                  => UNCHANGED <<json_file, ddb_file, index_file, index_dir, pf>> ) ]_vars

StorageErrorsWitness ==
    /\ last.op = "partial_read" /\ last.prior = "both"
    /\ last.outcome = "FileExistsError" /\ ~index_dir

\* C11 (representation independence): the text read after a write_dump, a
\* write or a partial_write is the text that was written, whether it was
\* stored plain or compressed; and when a document is written again unchanged
\* in the other representation after a successful partial_read of K, the next
\* partial_read of K is a cache hit with the same value and writes nothing.
ReprIndependent ==
    [][ /\ (last'.op \in {"write", "write_dump", "partial_write"})
           => (DocText'.outcome = "ok" /\ DocText'.data = last'.dump)
        /\ ( /\ last.op \in {"write", "write_dump"} /\ last.after = "same"
             /\ last.prior # OnDisk(json_file, ddb_file)
             /\ last'.op = "partial_read" /\ last'.key = last.key )
           => ( /\ last'.outcome = "ok"
                /\ last'.branch = "hit"
                /\ last'.value = last.value
                /\ ~last'.wrote
                /\ index_file' = index_file ) ]_vars

ReprIndependentWitness ==
    /\ last.op = "partial_read" /\ last.after = "rewrite"
    /\ last.branch = "hit" /\ last.outcome = "ok"
    /\ OnDisk(json_file, ddb_file) = "compressed"
    /\ ddb_file.data # DocText.data

\* C12 (cache transparency): the handle a partial_read(db, K, as_handle=True)
\* returns with the index cache as it is holds the same prefix, value,
\* suffix, indent_level and indent_with as the same call gives with an empty
\* index cache, and the two calls raise KeyError together.
CacheTransparent ==
    ( /\ last.op = "partial_read" /\ last.as_handle
      /\ last.outcome \in {"ok", "KeyError"}
      /\ DocText.outcome = "ok" /\ KeysUnique(DocText.data) )
    => LET r == partial_read(DocText.data, read_index_file(NoIndex), last.key)
       IN  /\ r.outcome = last.outcome
           /\ last.outcome = "ok"
                => ( /\ pf.prefix = r.prefix
                     /\ pf.value = r.value
                     /\ pf.suffix = r.suffix
                     /\ pf.indent_level = r.indent_level
                     /\ pf.indent_with = r.indent_with )

\* C13 (index entries are never removed): a partial_read or a partial_write
\* leaves every key of the index cache file in it, and changes no entry but
\* that of the key it is called for.
IndexGrows ==
    [][ (last'.op \in {"partial_read", "partial_write"})
        => ( /\ DOMAIN read_index_file(index_file)
                  \subseteq DOMAIN read_index_file(index_file')
             /\ \A k \in DOMAIN read_index_file(index_file) :
                  k # last'.key
                    => read_index_file(index_file')[k] = read_index_file(index_file)[k] ) ]_vars

\* C14 (lost update without locking): a partial_write of a handle whose
\* document was changed, replaced or removed since the handle was read raises
\* no error, and the document it leaves is the text the handle was read from
\* with the span replaced by the new value: nothing of the change remains.
LostUpdate ==
    [][ ( /\ last'.op = "partial_write"
          /\ DocText # [outcome |-> "ok", data |-> pf.read_data] )
        => LET dump == PartialDump(pf, last'.value, config)
               n == Len(pf.prefix) + Len(dump)
           IN  /\ last'.outcome = "ok"
               /\ DocText'.outcome = "ok"
               /\ Len(DocText'.data) = n + Len(pf.suffix)
               /\ Slice(DocText'.data, 0, Len(pf.prefix))
                    = Slice(pf.read_data, 0, Len(pf.prefix))
               /\ Slice(DocText'.data, Len(pf.prefix), n) = dump
               /\ Slice(DocText'.data, n, n + Len(pf.suffix))
                    = Slice(pf.read_data, Len(pf.read_data) - Len(pf.suffix),
                            Len(pf.read_data)) ]_vars

LostUpdateWitness ==
    /\ last.op = "partial_write" /\ last.had = "changed"
    /\ last.outcome = "ok" /\ last.prior = "plain"
    /\ DocText.outcome = "ok" /\ Len(DocText.data) > Len(last.before)

\* C15 (index entry written by a partial write): partial_write stores for the
\* key of the handle the entry [len(prefix), len(prefix) + len(serialized
\* value), indent_level, indent_with, SHA-256 of the serialized value], and
\* does so before it writes the document (an interrupted call has stored the
\* entry and left the document alone); after the document write the text at
\* [start, end) has the stored hash and is exactly the value of the key.
EntryWritten ==
    /\ [][ (last'.op \in {"partial_write", "crash"})
           => LET dump == PartialDump(pf, last'.value, config)
              IN  /\ index_file'.exists
                  /\ pf.key \in DOMAIN index_file'.map
                  /\ index_file'.map[pf.key]
                       = [start |-> Len(pf.prefix),
                          end |-> Len(pf.prefix) + Len(dump),
                          indent_level |-> pf.indent_level,
                          indent_with |-> pf.indent_with,
                          value_hash |-> Sha256(dump)]
                  /\ last'.op = "crash" => UNCHANGED <<json_file, ddb_file>> ]_vars
    /\ [] ( last.op = "partial_write"
            => LET e == index_file.map[last.key]
               IN  /\ DocText.outcome = "ok"
                   /\ Sha256(Slice(DocText.data, e.start, e.end)) = e.value_hash
                   /\ IsValueSpan(DocText.data, last.key, e.start, e.end, last.value) )

\* C16 (handle partition): the handle a partial_read(db, K, as_handle=True)
\* returns, from a cache hit or from a full scan, holds an index entry for K
\* whose offsets [start, end) lie in the text that was read; the prefix, the
\* text of that span and the suffix make up the text that was read, the
\* prefix is start characters long, and the span decodes to the handle's value.
HandlePartition ==
    (last.op = "partial_read" /\ last.as_handle /\ last.outcome = "ok")
    => /\ pf.held /\ pf.key = last.key
       /\ pf.read_data = DocText.data
       /\ pf.key \in DOMAIN pf.index_data
       /\ LET e == pf.index_data[pf.key]
              span == Slice(pf.read_data, e.start, e.end)
          IN  /\ 0 <= e.start /\ e.start <= e.end /\ e.end <= Len(pf.read_data)
              /\ pf.prefix \o span \o pf.suffix = pf.read_data
              /\ Len(pf.prefix) = e.start
              /\ Len(pf.suffix) = Len(pf.read_data) - e.end
              /\ Loads(span) = [ok |-> TRUE, v |-> pf.value]

HandlePartitionWitness ==
    /\ last.op = "partial_read" /\ last.as_handle /\ last.outcome = "ok"
    /\ last.branch = "hit" /\ last.had = "match"
    /\ pf.held /\ pf.key = KeyA /\ pf.value.t = "obj"
    /\ Len(pf.suffix) > 1

\* Number of newlines of the text s before position i.
NewlinesBefore(s, i) == Cardinality({j \in 1..(i - 1) : s[j] = NEWLINE})

\* The text out is the text raw with pad put in after each of its newlines,
\* and nothing else changed.
PaddedAfterNewlines(raw, pad, out) ==
    /\ Len(out) = Len(raw) + Len(pad) * NewlinesBefore(raw, Len(raw) + 1)
    /\ \A i \in 1..Len(raw) :
         LET p == i + Len(pad) * NewlinesBefore(raw, i)
         IN  /\ out[p] = raw[i]
             /\ raw[i] = NEWLINE => SubSeq(out, p + 1, p + Len(pad)) = pad

\* C17 (re-indentation): in the document a partial_write leaves, the text at
\* the offsets stored for the key is the serialized value with indent_level
\* repetitions of indent_with put in after each of its newlines when
\* indent_level > 0 and indent_with is not empty, and the serialized value
\* unchanged otherwise; the stored end offset and hash are those of that text.
Reindented ==
    (last.op = "partial_write")
    => LET e == index_file.map[last.key]
           raw == Dumps(last.value, config)
           pad == Repeat(e.indent_level, e.indent_with)
           written == Slice(DocText.data, e.start, e.end)
       IN  /\ DocText.outcome = "ok"
           /\ e.end <= Len(DocText.data)
           /\ IF e.indent_level > 0 /\ e.indent_with # <<>>
              THEN PaddedAfterNewlines(raw, pad, written)
              ELSE written = raw
           /\ e.value_hash = Sha256(written)

ReindentedWitness ==
    /\ last.op = "partial_write" /\ last.value.t = "obj"
    /\ index_file.map[last.key].indent_level > 0
    /\ config.indent # <<>>
    /\ Len(Slice(DocText.data, index_file.map[last.key].start,
                 index_file.map[last.key].end)) > Len(Dumps(last.value, config))

====
